---- MODULE Spec2Model ----
(***************************************************************************)
(* Model of the events-api.  The crawl-job API (src/crawler.py): the        *)
(* in-memory job store `jobs`, the four request handlers of crawler_router *)
(* and the coroutine _run_spider_async.  The event routes (src/router.py): *)
(* get_events and get_event over the "events" collection.                  *)
(*                                                                         *)
(* Spec is the program as the source has it: trigger_crawl registers the   *)
(* job and returns; the asyncio.create_task call of src/crawler.py:123 is  *)
(* commented out, so no task is ever created.                              *)
(*                                                                         *)
(* StubSpec adds the dispatch the specification asks for (section 4.3) and *)
(* the steps of the tasks it creates, each step translated from the body   *)
(* of _run_spider_async.  The event loop is cooperative: a handler, and    *)
(* the part of a coroutine between two awaits, is one atomic step.         *)
(*                                                                         *)
(* EventsSpec is the event routes.  They share no state with the crawl-job *)
(* API: the job store stays as constructed, the collection is what the     *)
(* database holds when the server starts, and each step handles a request. *)
(***************************************************************************)
EXTENDS FiniteSets, Integers, Sequences, TLC

VARIABLES
    jobs,      \* crawler.jobs: dict job_id -> status
    tasks,     \* the event loop's tasks running _run_spider_async, in creation
               \* order: [job_id, pc]
    issued,    \* history: the ids _generate_job_id returned, in call order
    deleted,   \* history: ids removed by DELETE and not submitted again since
    gone,      \* history: ids removed by DELETE and not written since
    recreated, \* history: ids a started task's write put back after a DELETE
    seen,      \* history: per id, the distinct statuses the registry held, in order
    store,     \* get_db()["events"]: the documents of the collection, in
               \* natural order
    reply      \* the last request an event route handled, with its response

vars == <<jobs, tasks, issued, deleted, gone, recreated, seen, store, reply>>

\* ------------------------------------------------------------------ bounds

\* successful submits in a run
MaxSubmits == 2

\* documents in the events collection
MaxStoreLen == 2

\* ------------------------------------------------------- python helpers

\* x in list
InList(x, list) == \E i \in 1..Len(list) : list[i] = x

\* sub in s, for str
Contains(s, sub) ==
    \E i \in 1..(Len(s) - Len(sub) + 1) : SubSeq(s, i, i + Len(sub) - 1) = sub

\* d[k] = v
DictSet(d, k, v) == [x \in DOMAIN d \cup {k} |-> IF x = k THEN v ELSE d[x]]

\* del d[k]
DictDel(d, k) == [x \in DOMAIN d \ {k} |-> d[x]]

Digit(n) == <<"0", "1", "2", "3", "4", "5", "6", "7", "8", "9">>[n + 1]

HexDigit(n) ==
    <<"0", "1", "2", "3", "4", "5", "6", "7", "8", "9", "a", "b", "c", "d", "e", "f">>[n + 1]

\* repr of a list of str
ReprList(list) ==
    LET RECURSIVE Items(_)
        Items(i) ==
            IF i > Len(list) THEN ""
            ELSE (IF i > 1 THEN ", " ELSE "") \o "'" \o list[i] \o "'" \o Items(i + 1)
    IN "[" \o Items(1) \o "]"

\* -------------------------------------------------------------- constants

Statuses == {"pending", "running", "completed", "failed"}

available_spiders == <<"luma", "eventbrite">>

\* ------------------------------------------------------ _generate_job_id

\* datetime.now().strftime("%Y%m%d_%H%M%S") when the clock reads second t
strftime(t) == "20240101_1200" \o Digit(t \div 10) \o Digit(t % 10)

\* str(uuid.uuid4())[:8]: the k-th of the values the random draw can give
uuid4_prefix(k) == "9f1c2e4" \o HexDigit(k % 16)

\* the id without the random suffix
_generate_job_id_no_suffix(spider_name, t, k) ==
    "crawl_" \o strftime(t) \o "_" \o spider_name

_generate_job_id(spider_name, t, k) ==
    "crawl_" \o strftime(t) \o "_" \o spider_name \o "_" \o uuid4_prefix(k)

\* what datetime.now() can read when a request is handled: the clock second
ClockReadings == {0, 1}

\* what uuid.uuid4() can draw when a request is handled
SuffixDraws == {0, 1}

\* every id the generator can return for a known spider
AllJobIds ==
    {_generate_job_id(available_spiders[i], t, k) :
        i \in 1..Len(available_spiders), t \in ClockReadings, k \in SuffixDraws}

\* spider names a request may carry: the two known ones and an unknown one
\* ("luma" is also what a request without a body defaults to)
SpiderInputs == {"luma", "eventbrite", "meetup"}

\* the POST /crawl requests of a run, each with the clock reading and the uuid
\* draw its handler gets: <<request.spider, t, k>>
SubmitInputs == SpiderInputs \X ClockReadings \X SuffixDraws

\* the POST /crawl requests of a run with the dispatch: one spider of the
\* allow-list (a request may repeat with the same clock second and uuid draw),
\* the other spider a second later, and a spider outside the list
StubSubmitInputs ==
    {<<"luma", 0, 0>>, <<"eventbrite", 1, 0>>, <<"meetup", 0, 0>>}

\* an id no submit generates
UnknownJobId == "crawl_20240101_115959_luma_00000000"

\* ------------------------------------------------------------- responses

\* raise HTTPException(status_code, detail)
HTTPException(status_code, detail) ==
    [code |-> status_code, body |-> [detail |-> detail]]

\* a handler's normal return
Ok(body) == [code |-> 200, body |-> body]

EmptyDict == [x \in {} |-> "pending"]

\* ------------------------------------------------------------- handlers
\* Each handler is an operator from the job store (and the request) to what
\* the handler leaves behind: the store, the response, and (POST /crawl) the
\* job ids it called asyncio.create_task(_run_spider_async(...)) for.

\* the job is not registered before the handler returns
trigger_crawl_unregistered(d, spider_name, t, k) ==
    IF ~InList(spider_name, available_spiders)
    THEN [jobs |-> d,
          spawned |-> <<>>,
          response |-> HTTPException(400,
              "Spider '" \o spider_name \o "' not found. Available: "
                  \o ReprList(available_spiders))]
    ELSE [jobs |-> d,
          spawned |-> <<>>,
          response |-> Ok([job_id |-> _generate_job_id(spider_name, t, k),
                           status |-> "pending"])]

\* the spider name is not validated
trigger_crawl_unchecked(d, spider_name, t, k) ==
    LET job_id == _generate_job_id(spider_name, t, k)
    IN [jobs |-> DictSet(d, job_id, "pending"),
        spawned |-> <<>>,
        response |-> Ok([job_id |-> job_id, status |-> "pending"])]

\* POST /crawl as the source has it: create_task is commented out
trigger_crawl(d, spider_name, t, k) ==
    IF ~InList(spider_name, available_spiders)
    THEN [jobs |-> d,
          spawned |-> <<>>,
          response |-> HTTPException(400,
              "Spider '" \o spider_name \o "' not found. Available: "
                  \o ReprList(available_spiders))]
    ELSE LET job_id == _generate_job_id(spider_name, t, k)
         IN [jobs |-> DictSet(d, job_id, "pending"),
             spawned |-> <<>>,
             response |-> Ok([job_id |-> job_id, status |-> "pending"])]

\* POST /crawl with the dispatch of section 4.3 of the specification (the
\* create_task call the source has commented out): the task is created, not run
trigger_crawl_create_task(d, spider_name, t, k) ==
    LET r == trigger_crawl(d, spider_name, t, k)
    IN IF r.response.code = 200
       THEN [r EXCEPT !.spawned = <<r.response.body.job_id>>]
       ELSE r

\* the status is read with jobs.pop(job_id)
get_crawl_status_pops(d, job_id) ==
    IF job_id \notin DOMAIN d
    THEN [jobs |-> d,
          response |-> HTTPException(404, "Job '" \o job_id \o "' not found")]
    ELSE [jobs |-> DictDel(d, job_id),
          response |-> Ok([job_id |-> job_id, status |-> d[job_id]])]

\* GET /crawl/{job_id}
get_crawl_status(d, job_id) ==
    IF job_id \notin DOMAIN d
    THEN [jobs |-> d,
          response |-> HTTPException(404, "Job '" \o job_id \o "' not found")]
    ELSE [jobs |-> d,
          response |-> Ok([job_id |-> job_id, status |-> d[job_id]])]

\* status_counts[status] = 1
CountOne_overwrite(status_counts, status) == DictSet(status_counts, status, 1)

\* status_counts[status] = status_counts.get(status, 0) + 1
CountOne(status_counts, status) ==
    DictSet(status_counts, status,
            (IF status \in DOMAIN status_counts THEN status_counts[status] ELSE 0) + 1)

\* for status in jobs.values(): ...
CountStatuses(d) ==
    LET RECURSIVE Loop(_, _)
        Loop(keys, status_counts) ==
            IF keys = {} THEN status_counts
            ELSE LET key == CHOOSE x \in keys : TRUE
                 IN Loop(keys \ {key}, CountOne(status_counts, d[key]))
    IN Loop(DOMAIN d, [x \in {} |-> 0])

\* GET /crawl
list_crawl_jobs(d) ==
    [jobs |-> d,
     response |-> Ok([jobs |-> d,
                      total_jobs |-> Cardinality(DOMAIN d),
                      status_summary |-> CountStatuses(d)])]

\* the whole store is cleared: jobs.clear()
cancel_crawl_job_clears(d, job_id) ==
    IF job_id \notin DOMAIN d
    THEN [jobs |-> d,
          response |-> HTTPException(404, "Job '" \o job_id \o "' not found")]
    ELSE [jobs |-> EmptyDict,
          response |-> Ok([message |-> "Job '" \o job_id \o "' has been removed",
                           job_id |-> job_id])]

\* an unknown job id is confirmed as removed
cancel_crawl_job_idempotent(d, job_id) ==
    [jobs |-> DictDel(d, job_id),
     response |-> Ok([message |-> "Job '" \o job_id \o "' has been removed",
                      job_id |-> job_id])]

\* the record is kept and marked cancelled
cancel_crawl_job_marks(d, job_id) ==
    IF job_id \notin DOMAIN d
    THEN [jobs |-> d,
          response |-> HTTPException(404, "Job '" \o job_id \o "' not found")]
    ELSE [jobs |-> DictSet(d, job_id, "cancelled"),
          response |-> Ok([message |-> "Job '" \o job_id \o "' has been removed",
                           job_id |-> job_id])]

\* DELETE /crawl/{job_id}
cancel_crawl_job(d, job_id) ==
    IF job_id \notin DOMAIN d
    THEN [jobs |-> d,
          response |-> HTTPException(404, "Job '" \o job_id \o "' not found")]
    ELSE [jobs |-> DictDel(d, job_id),
          response |-> Ok([message |-> "Job '" \o job_id \o "' has been removed",
                           job_id |-> job_id])]

\* ------------------------------------------------------ _run_spider_async
\* A task is [job_id, pc]: pc is where the coroutine stands.
\*   created   : task created, body not entered
\*   sleep1    : suspended at await asyncio.sleep(1)
\*   sleep2    : suspended at await asyncio.sleep(crawl_duration)
\*   done      : returned
\*   raised    : ended by an exception that left the coroutine
\*   cancelled : ended by CancelledError
PcLive == {"created", "sleep1", "sleep2"}
PcStarted == {"sleep1", "sleep2"}
PcEnded == {"done", "raised", "cancelled"}

\* What can happen when the coroutine is resumed:
\*   none   : the await returns and the statements up to the next await succeed
\*   await  : the awaited operation raises an Exception
\*   print  : the print after the await raises an Exception (OSError on stdout)
Faults == {"none", "await", "print"}

\* the status is stored for every key of the dict, and for job_id
StoreStatus_every(d, job_id, status) ==
    [x \in DOMAIN d \cup {job_id} |-> status]

\* the strict policy: a status is stored only for a key the dict holds
StoreStatus_strict(d, job_id, status) ==
    IF job_id \in DOMAIN d THEN DictSet(d, job_id, status) ELSE d

\* jobs[job_id] = status, in the coroutine: the key is set whether or not it
\* is in the dict
StoreStatus(d, job_id, status) == DictSet(d, job_id, status)

\* the handler puts the job back in the queue
except_Exception_requeues(d, job_id, wrote, print_raises) ==
    [jobs |-> DictSet(d, job_id, "pending"),
     pc |-> IF print_raises THEN "raised" ELSE "done",
     wrote |-> Append(wrote, "pending")]

\* except Exception as e: jobs[job_id] = "failed"; print(...)
\* print_raises: whether the handler's own print raises
except_Exception(d, job_id, wrote, print_raises) ==
    [jobs |-> StoreStatus(d, job_id, "failed"),
     pc |-> IF print_raises THEN "raised" ELSE "done",
     wrote |-> Append(wrote, "failed")]

\* one step of the coroutine, from where it stands to its next await or its
\* end: the store it leaves, where it stands then, the statuses it stored
_run_spider_async(d, job_id, pc, fault, print_raises) ==
    CASE pc = "created" ->
            \* jobs[job_id] = "running"; ...; await asyncio.sleep(1)
            [jobs |-> StoreStatus(d, job_id, "running"), pc |-> "sleep1",
             wrote |-> <<"running">>]
      [] pc = "sleep1" ->
            \* print(f"Starting spider ..."); await asyncio.sleep(crawl_duration)
            IF fault = "none"
            THEN [jobs |-> d, pc |-> "sleep2", wrote |-> <<>>]
            ELSE except_Exception(d, job_id, <<>>, print_raises)
      [] pc = "sleep2" ->
            \* jobs[job_id] = "completed"; print(f"Spider ... completed successfully")
            IF fault = "none"
            THEN [jobs |-> StoreStatus(d, job_id, "completed"), pc |-> "done",
                  wrote |-> <<"completed">>]
            ELSE IF fault = "await"
            THEN except_Exception(d, job_id, <<>>, print_raises)
            ELSE except_Exception(StoreStatus(d, job_id, "completed"), job_id,
                                  <<"completed">>, print_raises)

\* task.cancel(): CancelledError is raised at the await the coroutine stands
\* at (or the body is never entered).  CancelledError is a BaseException, so
\* `except Exception` does not catch it: nothing is written.
_run_spider_async_cancelled(d, job_id, pc) ==
    [jobs |-> d, pc |-> "cancelled", wrote |-> <<>>]

\* ============================================================ src/router.py
\* ------------------------------------------------------------- str helpers

\* s[i - 1], for str
Char(s, i) == SubSeq(s, i, i)

\* c.lower(), for one character
Lower(c) ==
    LET upper == "ABCDEFGHIJKLMNOPQRSTUVWXYZ"
        lower == "abcdefghijklmnopqrstuvwxyz"
    IN IF \E i \in 1..Len(upper) : Char(upper, i) = c
       THEN Char(lower, CHOOSE i \in 1..Len(upper) : Char(upper, i) = c)
       ELSE c

\* str(n), for int
str(n) ==
    LET RECURSIVE Digits(_)
        Digits(m) == IF m < 10 THEN Digit(m) ELSE Digits(m \div 10) \o Digit(m % 10)
    IN IF n < 0 THEN "-" \o Digits(-n) ELSE Digits(n)

\* s.replace(old, new), for a one-character old
replace(s, old, new) ==
    LET RECURSIVE Rest(_)
        Rest(i) ==
            IF i > Len(s) THEN ""
            ELSE (IF Char(s, i) = old THEN new ELSE Char(s, i)) \o Rest(i + 1)
    IN Rest(1)

\* ------------------------------------------------------ the store's $regex
\* The patterns the handlers send are the request's text, taken as a regular
\* expression by the store.  Of the pattern language: an atom is "\s" (a
\* whitespace character), "." (any character) or a character standing for
\* itself; an atom may be followed by "+" (one or more of it).  A "+" where an
\* atom is due has nothing to repeat: the pattern is invalid.

IsSpace(c) == c = " "

\* the pattern, parsed
Tokens(pattern) ==
    LET RECURSIVE Parse(_)
        Parse(i) ==
            IF i > Len(pattern) THEN <<>>
            ELSE IF Char(pattern, i) = "+"
            THEN <<[kind |-> "nothing to repeat", char |-> "+", plus |-> FALSE]>>
            ELSE LET width == IF i < Len(pattern) /\ SubSeq(pattern, i, i + 1) = "\\s"
                              THEN 2 ELSE 1
                     kind == IF width = 2 THEN "space"
                             ELSE IF Char(pattern, i) = "." THEN "any" ELSE "char"
                     plus == /\ i + width <= Len(pattern)
                             /\ Char(pattern, i + width) = "+"
                 IN <<[kind |-> kind, char |-> Char(pattern, i), plus |-> plus]>>
                        \o Parse(i + width + (IF plus THEN 1 ELSE 0))
    IN Parse(1)

\* the store compiles the pattern
ValidPattern(pattern) ==
    \A k \in 1..Len(Tokens(pattern)) : Tokens(pattern)[k].kind # "nothing to repeat"

\* {"$regex": pattern, "$options": "i"} against a string value, for a valid
\* pattern: the pattern matches somewhere in the text, letters compared
\* without case
regex(pattern, text) ==
    LET tokens == Tokens(pattern)
        AtomMatches(k, pos) ==
            CASE tokens[k].kind = "any" -> TRUE
              [] tokens[k].kind = "space" -> IsSpace(Char(text, pos))
              [] tokens[k].kind = "char" -> Lower(Char(text, pos)) = Lower(tokens[k].char)
        RECURSIVE MatchAt(_, _)
        MatchAt(k, pos) ==
            IF k > Len(tokens) THEN TRUE
            ELSE IF tokens[k].plus
            THEN \E n \in 1..(Len(text) - pos + 1) :
                    /\ \A j \in pos..(pos + n - 1) : AtomMatches(k, j)
                    /\ MatchAt(k + 1, pos + n)
            ELSE /\ pos <= Len(text)
                 /\ AtomMatches(k, pos)
                 /\ MatchAt(k + 1, pos + 1)
    IN \E pos \in 1..(Len(text) + 1) : MatchAt(1, pos)

\* ------------------------------------------------------ pymongo Collection
\* A document is a function from its keys to their values; a key with no
\* value is not in the document.  Text values are strings, "_id" is
\* <<"ObjectId", n>>, guest_count is <<"int", n>> or <<"str", s>>.
\* A filter is a function from field names to conditions.

\* {"$regex": value, "$options": "i"}
RegexCondition(value) == [op |-> "$regex", value |-> value]

\* a plain value: equality
EqCondition(value) == [op |-> "$eq", value |-> value]

\* the document satisfies every condition of the filter; a condition on a
\* field the document lacks is not satisfied
Matches(document, filters) ==
    \A field \in DOMAIN filters :
        /\ field \in DOMAIN document
        /\ IF filters[field].op = "$regex"
           THEN regex(filters[field].value, document[field])
           ELSE document[field] = filters[field].value

\* the store rejects the query: pymongo raises OperationFailure
OperationFailure(filters) ==
    \E field \in DOMAIN filters :
        filters[field].op = "$regex" /\ ~ValidPattern(filters[field].value)

\* Collection.count_documents(filters)
count_documents(collection, filters) ==
    Cardinality({i \in 1..Len(collection) : Matches(collection[i], filters)})

\* Collection.find(filters): the matching documents, in natural order
find(collection, filters) ==
    SelectSeq(collection, LAMBDA document : Matches(document, filters))

\* Cursor.skip(n)
skip_(cursor, n) == SubSeq(cursor, n + 1, Len(cursor))

\* Cursor.limit(n), n >= 1
limit_(cursor, n) == SubSeq(cursor, 1, IF n < Len(cursor) THEN n ELSE Len(cursor))

\* Collection.find_one(filters): <<>> stands for None, <<document>> for a hit
find_one(collection, filters) == limit_(find(collection, filters), 1)

\* ------------------------------------------------------ models.EventOut

\* the fields of EventOut that hold str | None
EventOutStrFields ==
    {"title", "url", "description", "date", "end_date", "timezone", "location",
     "full_address", "city", "country", "place_id", "event_type", "visibility",
     "api_id", "cover_url", "organizer", "html_content", "raw_html",
     "extraction_method"}

IsDigits(s) ==
    /\ Len(s) > 0
    /\ \A i \in 1..Len(s) : \E n \in 0..9 : Digit(n) = Char(s, i)

\* int(s), for a string of digits
ParseInt(s) ==
    LET RECURSIVE Value(_)
        Value(i) ==
            IF i = 0 THEN 0
            ELSE 10 * Value(i - 1) + (CHOOSE n \in 0..9 : Digit(n) = Char(s, i))
    IN Value(Len(s))

\* EventOut(**event).model_dump(): the fields of the model that the document
\* has (a field not in the result is None), keys that are no field of the
\* model ignored; guest_count: int | None takes an int, or a string of digits,
\* which it converts.  ok is FALSE when the validation raises.
EventOut(event) ==
    LET kept == [k \in DOMAIN event \cap EventOutStrFields |-> event[k]]
    IN IF "guest_count" \notin DOMAIN event
       THEN [ok |-> TRUE, value |-> kept, error |-> ""]
       ELSE IF event.guest_count[1] = "int"
       THEN [ok |-> TRUE,
             value |-> kept @@ ("guest_count" :> event.guest_count[2]),
             error |-> ""]
       ELSE IF IsDigits(event.guest_count[2])
       THEN [ok |-> TRUE,
             value |-> kept @@ ("guest_count" :> ParseInt(event.guest_count[2])),
             error |-> ""]
       ELSE [ok |-> FALSE,
             value |-> kept,
             error |-> "1 validation error for EventOut guest_count"]

\* if "_id" in event: del event["_id"]
del_id(event) == [k \in DOMAIN event \ {"_id"} |-> event[k]]

\* ------------------------------------------------------------- get_events

limit_default == 10
limit_ge == 1
limit_le == 100
skip_default == 0
skip_ge == 0

\* a query parameter that is given and not the empty string: `if city:`
Truthy(params, name) == name \in DOMAIN params /\ params[name] # ""

\* filters = {}; if city: filters["city"] = {"$regex": city, "$options": "i"}; ...
BuildFilters(params) ==
    [field \in {f \in {"city", "country", "event_type", "organizer"} : Truthy(params, f)} |->
        IF field = "event_type"
        THEN EqCondition(params[field])
        ELSE RegexCondition(params[field])]

\* the loop ends at the first record that cannot be mapped: break
MapEvents_break(cursor) ==
    LET RECURSIVE Loop(_, _)
        Loop(i, events) ==
            IF i > Len(cursor) THEN events
            ELSE LET event_out == EventOut(del_id(cursor[i]))
                 IN IF event_out.ok
                    THEN Loop(i + 1, Append(events, event_out.value))
                    ELSE events
    IN Loop(1, <<>>)

\* for event in events_cursor: ... try: events.append(...) except Exception: continue
MapEvents(cursor) ==
    LET RECURSIVE Loop(_, _)
        Loop(i, events) ==
            IF i > Len(cursor) THEN events
            ELSE LET event_out == EventOut(del_id(cursor[i]))
                 IN Loop(i + 1, IF event_out.ok
                                THEN Append(events, event_out.value)
                                ELSE events)
    IN Loop(1, <<>>)

\* has-more also when the page ends at the last record
Headers_has_more_ge(total_events, limit, skip) ==
    ("X-Total-Count" :> str(total_events))
        @@ ("X-Limit" :> str(limit))
        @@ ("X-Skip" :> str(skip))
        @@ ("X-Has-More" :> IF total_events >= skip + limit THEN "true" ELSE "false")

\* the response headers of get_events
Headers(total_events, limit, skip) ==
    ("X-Total-Count" :> str(total_events))
        @@ ("X-Limit" :> str(limit))
        @@ ("X-Skip" :> str(skip))
        @@ ("X-Has-More" :> IF total_events > skip + limit THEN "true" ELSE "false")

\* the 422 of a query parameter outside its Query(ge=..., le=...)
RequestValidationError(name) ==
    [code |-> 422, body |-> [detail |-> "query." \o name], headers |-> << >>]

\* an exception left the handler: the server answers 500
InternalServerError ==
    [code |-> 500, body |-> "Internal Server Error", headers |-> << >>]

\* GET /events
get_events(collection, params) ==
    LET limit == IF "limit" \in DOMAIN params THEN params.limit ELSE limit_default
        skip == IF "skip" \in DOMAIN params THEN params.skip ELSE skip_default
        filters == BuildFilters(params)
        total_events == count_documents(collection, filters)
        events_cursor == limit_(skip_(find(collection, filters), skip), limit)
    IN IF limit < limit_ge \/ limit > limit_le
       THEN RequestValidationError("limit")
       ELSE IF skip < skip_ge
       THEN RequestValidationError("skip")
       ELSE IF OperationFailure(filters)
       THEN InternalServerError
       ELSE [code |-> 200,
             body |-> [events |-> MapEvents(events_cursor)],
             headers |-> Headers(total_events, limit, skip)]

\* -------------------------------------------------------------- get_event

\* GET /events/{api_id}
get_event(collection, api_id) ==
    LET by_api_id == find_one(collection, [api_id |-> EqCondition(api_id)])
        by_title == [title |-> RegexCondition(replace(api_id, "-", "\\s+"))]
        event == IF by_api_id = <<>> THEN find_one(collection, by_title) ELSE by_api_id
    IN IF by_api_id = <<>> /\ OperationFailure(by_title)
       THEN [code |-> 500, body |-> "Internal Server Error"]
       ELSE IF event = <<>>
       THEN HTTPException(404, "Event not found")
       ELSE LET event_out == EventOut(del_id(event[1]))
            IN IF event_out.ok
               THEN Ok(event_out.value)
               ELSE HTTPException(500, "Error processing event data: " \o event_out.error)

\* ------------------------------------------------------ the events' inputs

\* the documents the collection may hold
Documents ==
    {[_id |-> <<"ObjectId", 1>>, api_id |-> "evt-1", title |-> "AI Day",
      city |-> "Lima", country |-> "Peru", organizer |-> "ACM",
      event_type |-> "series", guest_count |-> <<"int", 12>>],
     [_id |-> <<"ObjectId", 2>>, api_id |-> "evt-2", title |-> "Evt  1",
      city |-> "La Paz", country |-> "Bolivia", organizer |-> "IEEE",
      event_type |-> "independent", guest_count |-> <<"str", "12">>],
     [_id |-> <<"ObjectId", 3>>, api_id |-> "evt-3", title |-> "Expo",
      city |-> "Lima", country |-> "Peru", organizer |-> "ACM",
      event_type |-> "series", guest_count |-> <<"str", "many">>],
     [_id |-> <<"ObjectId", 4>>, title |-> "ai day",
      country |-> "Peru", event_type |-> "Series",
      guest_count |-> <<"str", "many">>]}

\* the contents of the collection: documents differ in their _id
Stores ==
    UNION {{s \in [1..n -> Documents] : \A i, j \in 1..n : i # j => s[i] # s[j]} :
            n \in 0..MaxStoreLen}

NoParams == [x \in {} |-> ""]

\* the filter parameters of a GET /events request
FilterInputs ==
    {NoParams,
     [city |-> "lim"],
     [city |-> "."],
     [city |-> ""],
     [city |-> "+"],
     [event_type |-> "series"],
     [city |-> "LIMA", event_type |-> "series"],
     [country |-> "peru", organizer |-> "ieee"],
     [city |-> "la", country |-> "b", event_type |-> "independent", organizer |-> "ieee"]}

LimitInputs == {1, 2}

SkipInputs == {0, 1}

\* limit and skip outside their Query(ge=..., le=...)
InvalidPageInputs ==
    {[limit |-> 0, skip |-> 0], [limit |-> 101, skip |-> 0], [limit |-> 1, skip |-> -1]}

\* the query of a GET /events request: the filters, with limit and skip or
\* with neither
EventsParams ==
    FilterInputs
        \cup {f @@ [limit |-> l, skip |-> s] :
                f \in FilterInputs, l \in LimitInputs, s \in SkipInputs}
        \cup InvalidPageInputs

\* the api_id of a GET /events/{api_id} request
ApiIdInputs == {"evt-1", "evt-3", "AI-Day", "evt-9", "+1"}

NoReply == [route |-> "none"]

\* -------------------------------------------------------------- the state

Range(seq) == {seq[i] : i \in 1..Len(seq)}

\* job ids a GET or DELETE request may carry: the ids generated so far and one
\* that never is (every other id not generated yet behaves as that one does)
JobIdInputs == Range(issued) \cup {UnknownJobId}

\* seen, after the registry became d
Observed(d) ==
    [id \in AllJobIds |->
        IF id \in DOMAIN d /\ (seen[id] = <<>> \/ seen[id][Len(seen[id])] # d[id])
        THEN Append(seen[id], d[id])
        ELSE seen[id]]

\* the tasks, with one created for each id of `spawned`
Spawn(spawned) ==
    tasks \o [i \in 1..Len(spawned) |-> [job_id |-> spawned[i], pc |-> "created"]]

Init ==
    /\ jobs = EmptyDict
    /\ tasks = <<>>
    /\ issued = <<>>
    /\ deleted = {}
    /\ gone = {}
    /\ recreated = {}
    /\ seen = [id \in AllJobIds |-> <<>>]
    /\ store = <<>>
    /\ reply = NoReply

\* a POST /crawl request was handled, which left r
Submit(r) ==
    /\ r.response.code = 200 => Len(issued) < MaxSubmits
    /\ jobs' = r.jobs
    /\ tasks' = Spawn(r.spawned)
    /\ issued' = IF r.response.code = 200
                 THEN Append(issued, r.response.body.job_id) ELSE issued
    /\ deleted' = IF r.response.code = 200
                  THEN deleted \ {r.response.body.job_id} ELSE deleted
    /\ gone' = IF r.response.code = 200
               THEN gone \ {r.response.body.job_id} ELSE gone
    /\ seen' = Observed(r.jobs)
    /\ UNCHANGED <<recreated, store, reply>>

\* POST /crawl
PostCrawl(spider_name, t, k) ==
    Submit(trigger_crawl(jobs, spider_name, t, k))

\* POST /crawl, with the dispatch
PostCrawlDispatch(spider_name, t, k) ==
    Submit(trigger_crawl_create_task(jobs, spider_name, t, k))

\* GET /crawl/{job_id}
GetCrawlStatus(job_id) ==
    /\ jobs' = get_crawl_status(jobs, job_id).jobs
    /\ seen' = Observed(jobs')
    /\ UNCHANGED <<tasks, issued, deleted, gone, recreated, store, reply>>

\* GET /crawl
ListCrawlJobs ==
    /\ jobs' = list_crawl_jobs(jobs).jobs
    /\ seen' = Observed(jobs')
    /\ UNCHANGED <<tasks, issued, deleted, gone, recreated, store, reply>>

\* DELETE /crawl/{job_id}
DeleteCrawl(job_id) ==
    LET r == cancel_crawl_job(jobs, job_id)
    IN /\ jobs' = r.jobs
       /\ deleted' = IF r.response.code = 200 THEN deleted \cup {job_id} ELSE deleted
       /\ gone' = IF r.response.code = 200 THEN gone \cup {job_id} ELSE gone
       /\ seen' = Observed(r.jobs)
       /\ UNCHANGED <<tasks, issued, recreated, store, reply>>

\* the event loop ran task i for one step, which left r
TaskStep(i, r) ==
    /\ jobs' = r.jobs
    /\ tasks' = [tasks EXCEPT ![i] = [job_id |-> tasks[i].job_id, pc |-> r.pc]]
    /\ gone' = IF r.wrote # <<>> THEN gone \ {tasks[i].job_id} ELSE gone
    /\ recreated' = IF /\ r.wrote # <<>>
                        /\ tasks[i].pc \in PcStarted
                        /\ tasks[i].job_id \in gone
                     THEN recreated \cup {tasks[i].job_id} ELSE recreated
    /\ seen' = Observed(r.jobs)
    /\ UNCHANGED <<issued, deleted, store, reply>>

\* the event loop enters the body of task i
TaskStart(i) ==
    /\ tasks[i].pc = "created"
    /\ TaskStep(i, _run_spider_async(jobs, tasks[i].job_id, tasks[i].pc, "none", FALSE))

\* the event loop resumes task i at its await
TaskResume(i, fault, print_raises) ==
    /\ tasks[i].pc \in PcStarted
    /\ fault = "none" => ~print_raises
    /\ TaskStep(i, _run_spider_async(jobs, tasks[i].job_id, tasks[i].pc, fault, print_raises))

\* task i is cancelled (the loop shuts down) before it ended
TaskCancel(i) ==
    /\ tasks[i].pc \in PcLive
    /\ TaskStep(i, _run_spider_async_cancelled(jobs, tasks[i].job_id, tasks[i].pc))

\* the program as the source has it
Next ==
    \/ \E in \in SubmitInputs : PostCrawl(in[1], in[2], in[3])
    \/ \E job_id \in JobIdInputs : GetCrawlStatus(job_id)
    \/ ListCrawlJobs
    \/ \E job_id \in JobIdInputs : DeleteCrawl(job_id)

Spec == Init /\ [][Next]_vars

\* the program with the dispatch of the execution stub
StubNext ==
    \/ \E in \in StubSubmitInputs : PostCrawlDispatch(in[1], in[2], in[3])
    \/ \E job_id \in JobIdInputs : GetCrawlStatus(job_id)
    \/ ListCrawlJobs
    \/ \E job_id \in JobIdInputs : DeleteCrawl(job_id)
    \/ \E i \in 1..Len(tasks) : TaskStart(i)
    \/ \E i \in 1..Len(tasks), fault \in Faults, print_raises \in BOOLEAN :
            TaskResume(i, fault, print_raises)
    \/ \E i \in 1..Len(tasks) : TaskCancel(i)

StubSpec == Init /\ [][StubNext]_vars

\* ------------------------------------------------------- the event routes

\* GET /events
GetEvents(params) ==
    /\ reply' = [route |-> "get_events", params |-> params,
                 response |-> get_events(store, params)]
    /\ UNCHANGED <<jobs, tasks, issued, deleted, gone, recreated, seen, store>>

\* GET /events/{api_id}
GetEvent(api_id) ==
    /\ reply' = [route |-> "get_event", api_id |-> api_id,
                 response |-> get_event(store, api_id)]
    /\ UNCHANGED <<jobs, tasks, issued, deleted, gone, recreated, seen, store>>

\* the server starts: the job store as constructed, the collection as the
\* database holds it
EventsInit ==
    /\ jobs = EmptyDict
    /\ tasks = <<>>
    /\ issued = <<>>
    /\ deleted = {}
    /\ gone = {}
    /\ recreated = {}
    /\ seen = [id \in AllJobIds |-> <<>>]
    /\ store \in Stores
    /\ reply = NoReply

EventsNext ==
    \/ \E params \in EventsParams : GetEvents(params)
    \/ \E api_id \in ApiIdInputs : GetEvent(api_id)

EventsSpec == EventsInit /\ [][EventsNext]_vars

TypeOK ==
    /\ DOMAIN jobs \subseteq AllJobIds
    /\ Len(issued) <= MaxSubmits
    /\ Len(tasks) <= Len(issued)

\* ================================================================ claims

IsPrefix(s, t) == Len(s) <= Len(t) /\ \A i \in 1..Len(s) : s[i] = t[i]

Terminal == {"completed", "failed"}

\* how often the generator returned id
TimesIssued(id) == Cardinality({i \in 1..Len(issued) : issued[i] = id})

\* this step is a POST /crawl that returned 200
SubmitStep == Len(issued') > Len(issued)

\* the id a SubmitStep returned
NewJobId == issued'[Len(issued')]

\* ---------------------------------------------------------------------- C1
\* C1: every successful submit schedules the execution stub for the new job:
\* the step that returns (job_id, pending) creates a task running
\* _run_spider_async for that job_id.
C1_SubmitSchedulesStub ==
    [][SubmitStep =>
        \E i \in 1..Len(tasks') : i > Len(tasks) /\ tasks'[i].job_id = NewJobId]_vars

GeneratorInputs ==
    Range(available_spiders) \X ClockReadings \X SuffixDraws

C3_NeverCreatedOrDeleted ==
    ((AllJobIds \cup {UnknownJobId}) \ Range(issued)) \cup deleted

\* the ids never created, with those removed by DELETE and not stored since
C3_NeverCreatedOrGone ==
    ((AllJobIds \cup {UnknownJobId}) \ Range(issued)) \cup gone

\* C3 as stated: for every job id never created or already deleted, status
\* and delete fail with 404, in every reachable state.
C3_DeletedIsNotFound ==
    \A id \in C3_NeverCreatedOrDeleted :
        /\ get_crawl_status(jobs, id).response.code = 404
        /\ cancel_crawl_job(jobs, id).response.code = 404

\* C3 as amended: for every job id never created, or deleted and not stored
\* again since (by a submit that generated it again, or by the status write of
\* a stub still in flight), status and delete fail with 404.
C3_AbsentIsNotFound ==
    \A id \in C3_NeverCreatedOrGone :
        /\ get_crawl_status(jobs, id).response.code = 404
        /\ cancel_crawl_job(jobs, id).response.code = 404

\* a job was deleted and its stub is still in flight: status answers 404
C3_Witness ==
    \E i \in 1..Len(tasks) :
        /\ tasks[i].pc \in PcStarted
        /\ tasks[i].job_id \in gone
        /\ get_crawl_status(jobs, tasks[i].job_id).response.code = 404

\* ---------------------------------------------------------------------- C4
\* C4: in every reachable state, a submit for a spider of the allow-list
\* stores the generated id with status pending and returns (job_id, pending),
\* and a status request handled right after it returns pending; the step
\* that handles the submit moves no task (the new task is only created); and
\* a status request for an id submitted and not deleted since returns 200
\* with one of the four statuses.
C4_SubmitReturnsPendingAtOnce ==
    /\ [](\A in \in SubmitInputs :
            InList(in[1], available_spiders) =>
                LET r == trigger_crawl(jobs, in[1], in[2], in[3])
                    job_id == _generate_job_id(in[1], in[2], in[3])
                IN /\ r.response = Ok([job_id |-> job_id, status |-> "pending"])
                   /\ job_id \in DOMAIN r.jobs
                   /\ r.jobs[job_id] = "pending"
                   /\ get_crawl_status(r.jobs, job_id).response
                        = Ok([job_id |-> job_id, status |-> "pending"]))
    /\ [][SubmitStep =>
            /\ NewJobId \in DOMAIN jobs'
            /\ jobs'[NewJobId] = "pending"
            /\ SubSeq(tasks', 1, Len(tasks)) = tasks
            /\ \A i \in (Len(tasks) + 1)..Len(tasks') : tasks'[i].pc = "created"]_vars
    /\ [](\A id \in Range(issued) \ deleted :
            /\ get_crawl_status(jobs, id).response.code = 200
            /\ get_crawl_status(jobs, id).response.body.job_id = id
            /\ get_crawl_status(jobs, id).response.body.status \in Statuses)

\* a submit has returned and its stub has not run yet (status pending), while
\* another job already holds a terminal status
C4_Witness ==
    \E i \in 1..Len(tasks) :
        /\ tasks[i].pc = "created"
        /\ get_crawl_status(jobs, tasks[i].job_id).response.code = 200
        /\ get_crawl_status(jobs, tasks[i].job_id).response.body.status = "pending"
        /\ \E id \in DOMAIN jobs : jobs[id] \in Terminal

\* ---------------------------------------------------------------------- C5
\* C5: in every reachable state, a submit for a spider outside the allow-list
\* fails with 400, its message lists luma and eventbrite, the registry it
\* leaves is the one it found, and it creates no task.
C5_InvalidSpiderRejected ==
    \A in \in SubmitInputs :
        ~InList(in[1], available_spiders) =>
            LET r == trigger_crawl(jobs, in[1], in[2], in[3])
                s == trigger_crawl_create_task(jobs, in[1], in[2], in[3])
            IN /\ r.response.code = 400
               /\ Contains(r.response.body.detail, "luma")
               /\ Contains(r.response.body.detail, "eventbrite")
               /\ r.jobs = jobs
               /\ r.spawned = <<>>
               /\ s = r

\* a job is running, its stub in flight: a submit for "meetup" is rejected
C5_Witness ==
    /\ \E id \in DOMAIN jobs : jobs[id] = "running"
    /\ \E i \in 1..Len(tasks) : tasks[i].pc \in PcStarted
    /\ trigger_crawl(jobs, "meetup", 0, 0).response.code = 400

\* ---------------------------------------------------------------------- C6
\* the sum of the counts of a summary
SumCounts(status_counts) ==
    LET RECURSIVE Sum(_)
        Sum(keys) ==
            IF keys = {} THEN 0
            ELSE LET key == CHOOSE x \in keys : TRUE
                 IN status_counts[key] + Sum(keys \ {key})
    IN Sum(DOMAIN status_counts)

\* C6: in every reachable state, list returns total_jobs equal to the number
\* of ids in the registry and a status_summary whose counts sum to total_jobs,
\* each count being the number of jobs holding that status, none of them zero.
C6_SummaryCountsSumToTotal ==
    LET body == list_crawl_jobs(jobs).response.body
    IN /\ body.total_jobs = Cardinality(DOMAIN jobs)
       /\ SumCounts(body.status_summary) = body.total_jobs
       /\ \A s \in DOMAIN body.status_summary :
            /\ body.status_summary[s] = Cardinality({id \in DOMAIN jobs : jobs[id] = s})
            /\ body.status_summary[s] > 0
       /\ \A id \in DOMAIN jobs : jobs[id] \in DOMAIN body.status_summary

\* the registry holds two jobs of one status: list counts 2 for it
C6_Witness ==
    LET body == list_crawl_jobs(jobs).response.body
    IN /\ body.total_jobs = 2
       /\ \E s \in DOMAIN body.status_summary :
            s \in Terminal /\ body.status_summary[s] = 2

\* ---------------------------------------------------------------------- C7
\* C7: in every reachable state every id of the registry maps to one of
\* pending, running, completed, failed, and a delete of any of them removes
\* its record and leaves no other value behind.
C7_StatusIsOneOfFour ==
    /\ \A id \in DOMAIN jobs : jobs[id] \in Statuses
    /\ \A id \in DOMAIN jobs :
            LET r == cancel_crawl_job(jobs, id)
            IN /\ r.response.code = 200
               /\ id \notin DOMAIN r.jobs
               /\ \A other \in DOMAIN r.jobs : r.jobs[other] \in Statuses

\* a record was deleted while another job holds a terminal status
C7_Witness ==
    \E id \in deleted :
        /\ id \notin DOMAIN jobs
        /\ \E other \in DOMAIN jobs : jobs[other] \in Terminal

\* ---------------------------------------------------------------------- C8
\* C8: once the stub has started, it never ends by an error leaving it
\* (cancellation included), and when it ends the registry holds a terminal
\* status for its job.
C8_StubEndsCaughtAndTerminal ==
    [][\A i \in 1..Len(tasks) :
        (tasks[i].pc \in PcStarted /\ tasks'[i].pc \in PcEnded) =>
            /\ tasks'[i].pc = "done"
            /\ tasks[i].job_id \in DOMAIN jobs'
            /\ jobs'[tasks[i].job_id] \in Terminal]_vars

\* --------------------------------------------------------------------- C10
\* C10: the step that removes a record (a successful delete) leaves every
\* task as it was; when a started stub whose job's record is absent makes its
\* final status write, the write puts the id back in the registry with a
\* terminal status.
C10_DeleteDoesNotStopStub ==
    /\ [][\A id \in DOMAIN jobs :
            id \notin DOMAIN jobs' =>
                /\ tasks' = tasks
                /\ cancel_crawl_job(jobs, id).response.code = 200]_vars
    /\ [][\A i \in 1..Len(tasks) :
            (/\ tasks[i].pc \in PcStarted
             /\ tasks[i].job_id \notin DOMAIN jobs
             /\ tasks'[i].pc \in {"done", "raised"}) =>
                /\ tasks[i].job_id \in DOMAIN jobs'
                /\ jobs'[tasks[i].job_id] \in Terminal]_vars

\* a job deleted while its stub ran is back in the registry, completed
C10_Witness ==
    \E i \in 1..Len(tasks) :
        /\ tasks[i].pc = "done"
        /\ tasks[i].job_id \in recreated
        /\ tasks[i].job_id \in deleted
        /\ tasks[i].job_id \in DOMAIN jobs
        /\ jobs[tasks[i].job_id] = "completed"

\* --------------------------------------------------------------------- C13
\* the terminal statuses among the statuses a step stored
TerminalWrites(wrote) == SelectSeq(wrote, LAMBDA status : status \in Terminal)

\* C13: whatever a resumed stub meets (its await raising, a print raising,
\* or neither), the step it takes stores at most one terminal status, and a
\* stub that has ended stores nothing more.
C13_OneTerminalWrite ==
    [][\A i \in 1..Len(tasks) :
        /\ \A fault \in Faults, print_raises \in BOOLEAN :
            LET r == _run_spider_async(jobs, tasks[i].job_id, tasks[i].pc,
                                       fault, print_raises)
            IN (/\ tasks[i].pc \in PcStarted
                /\ fault = "none" => ~print_raises
                /\ jobs' = r.jobs
                /\ tasks' = [tasks EXCEPT ![i].pc = r.pc])
                    => Len(TerminalWrites(r.wrote)) <= 1
        /\ tasks[i].pc \in PcEnded => tasks'[i] = tasks[i]]_vars

\* --------------------------------------------------------------------- C14
\* the tasks that run the stub for id
TasksOf(id) == {i \in 1..Len(tasks) : tasks[i].job_id = id}

\* how far a coroutine has come
PcRank(pc) ==
    CASE pc = "created" -> 0
      [] pc = "sleep1" -> 1
      [] pc = "sleep2" -> 2
      [] pc \in PcEnded -> 3

OthersUnchanged(id) ==
    \A other \in (DOMAIN jobs \cup DOMAIN jobs') \ {id} :
        /\ other \in DOMAIN jobs
        /\ other \in DOMAIN jobs'
        /\ jobs'[other] = jobs[other]

C18_ReadsAndFailuresLeaveRegistry ==
    /\ \A id \in AllJobIds \cup {UnknownJobId} :
            get_crawl_status(jobs, id).jobs = jobs
    /\ list_crawl_jobs(jobs).jobs = jobs
    /\ \A in \in SubmitInputs :
            trigger_crawl(jobs, in[1], in[2], in[3]).response.code # 200
                => trigger_crawl(jobs, in[1], in[2], in[3]).jobs = jobs
    /\ \A id \in (AllJobIds \cup {UnknownJobId}) \ DOMAIN jobs :
            /\ get_crawl_status(jobs, id).response.code = 404
            /\ cancel_crawl_job(jobs, id).response.code = 404
            /\ cancel_crawl_job(jobs, id).jobs = jobs

\* the registry holds a job, another was deleted: a status request for the
\* first succeeds, one for the second fails
C18_Witness ==
    /\ \E id \in DOMAIN jobs : get_crawl_status(jobs, id).response.code = 200
    /\ \E id \in deleted :
            /\ id \notin DOMAIN jobs
            /\ cancel_crawl_job(jobs, id).response.code = 404
    /\ \E in \in SubmitInputs : trigger_crawl(jobs, in[1], in[2], in[3]).response.code = 400

\* ============================================== claims on the event routes

\* the last request handled was a GET /events that returned its page
ListReplied == reply.route = "get_events" /\ reply.response.code = 200

\* limit and skip of the last GET /events request
ReplyLimit == IF "limit" \in DOMAIN reply.params THEN reply.params.limit ELSE limit_default
ReplySkip == IF "skip" \in DOMAIN reply.params THEN reply.params.skip ELSE skip_default

\* the positions of the stored records that match the request's filters
MatchingPositions(params) ==
    {i \in 1..Len(store) : Matches(store[i], BuildFilters(params))}

\* the store, each record made mappable (its guest_count dropped)
MappableStore ==
    [i \in 1..Len(store) |-> [k \in DOMAIN store[i] \ {"guest_count"} |-> store[i][k]]]

FirstByApiId(api_id) ==
    LET hits == {i \in 1..Len(store) :
                    "api_id" \in DOMAIN store[i] /\ store[i].api_id = api_id}
    IN IF hits = {} THEN <<>>
       ELSE <<store[CHOOSE i \in hits : \A j \in hits : i <= j]>>

\* the first stored record whose title the id matches, "-" standing for
\* whitespace, if any (none when the store cannot take the id as a pattern)
FirstByTitle(api_id) ==
    LET pattern == replace(api_id, "-", "\\s+")
        hits == IF ValidPattern(pattern)
                THEN {i \in 1..Len(store) :
                        "title" \in DOMAIN store[i] /\ regex(pattern, store[i].title)}
                ELSE {}
    IN IF hits = {} THEN <<>>
       ELSE <<store[CHOOSE i \in hits : \A j \in hits : i <= j]>>

\* the record GET /events/{api_id} is to answer with: the one the api_id
\* lookup yields, and only when it yields none the one the title lookup yields
Looked(api_id) ==
    IF FirstByApiId(api_id) # <<>> THEN FirstByApiId(api_id) ELSE FirstByTitle(api_id)

\* C12: GET /events/{api_id} answers 404 exactly when neither lookup yields a
\* record, 500 "Error processing event data" exactly when the record found
\* cannot be mapped, and in every other case 200 with the found record mapped.
C12_GetEventOutcomes ==
    reply.route = "get_event" =>
        LET found == Looked(reply.api_id)
            response == reply.response
        IN IF found = <<>>
           THEN response = HTTPException(404, "Event not found")
           ELSE IF ~EventOut(del_id(found[1])).ok
           THEN /\ response.code = 500
                /\ response.body
                     = [detail |-> "Error processing event data: "
                                      \o EventOut(del_id(found[1])).error]
           ELSE response = Ok(EventOut(del_id(found[1])).value)

\* --------------------------------------------------------------------- C15
\* the k-th smallest member of a set of positions
Nth(positions, k) ==
    CHOOSE i \in positions : Cardinality({j \in positions : j <= i}) = k

\* the positions of the matching records that the page [skip, skip + limit)
\* covers
PagePositions(params, skip, limit) ==
    LET matching == MatchingPositions(params)
    IN {i \in matching :
            /\ Cardinality({j \in matching : j <= i}) > skip
            /\ Cardinality({j \in matching : j <= i}) <= skip + limit}

Max(a, b) == IF a >= b THEN a ELSE b

\* C15: a GET /events request is answered with the code it would get if
\* every record could be mapped; the events of an answered request are the
\* mappable records among the matching records at positions
\* [skip, skip + limit), mapped, in store order; their number is at most
\* limit and at most max(0, totalCount - skip); and X-Total-Count counts the
\* matching records, the unmappable ones included.
C15_UnmappableRecordsAreDropped ==
    reply.route = "get_events" =>
        /\ get_events(MappableStore, reply.params).code = reply.response.code
        /\ reply.response.code = 200 =>
            LET totalCount == Cardinality(MatchingPositions(reply.params))
                mappable == {i \in PagePositions(reply.params, ReplySkip, ReplyLimit) :
                                EventOut(del_id(store[i])).ok}
                events == reply.response.body.events
            IN /\ Len(events) = Cardinality(mappable)
               /\ \A k \in 1..Len(events) :
                    events[k] = EventOut(del_id(store[Nth(mappable, k)])).value
               /\ Len(events) <= ReplyLimit
               /\ Len(events) <= Max(0, totalCount - ReplySkip)
               /\ reply.response.headers["X-Total-Count"] = str(totalCount)

\* the page held a record that cannot be mapped before one that can: the
\* answer has the second only, and X-Total-Count counts both
C15_Witness ==
    /\ ListReplied
    /\ Len(reply.response.body.events) = 1
    /\ reply.response.headers["X-Total-Count"] = "2"
    /\ \E i, j \in PagePositions(reply.params, ReplySkip, ReplyLimit) :
            /\ i < j
            /\ ~EventOut(del_id(store[i])).ok
            /\ EventOut(del_id(store[j])).ok

\* --------------------------------------------------------------------- C16
\* sub is part of text, letters compared without case
ContainsIgnoreCase(text, sub) ==
    \E i \in 1..(Len(text) - Len(sub) + 1) :
        \A j \in 1..Len(sub) : Lower(Char(text, i + j - 1)) = Lower(Char(sub, j))

\* the filters a request supplies (a filter given as the empty string taken
\* as not supplied)
Supplied(params) ==
    {f \in {"city", "country", "event_type", "organizer"} :
        f \in DOMAIN params /\ params[f] # ""}

\* the record satisfies every filter the request supplies: event_type as
\* exact match, the others as case-insensitive partial match
Satisfies(record, params) ==
    \A f \in Supplied(params) :
        /\ f \in DOMAIN record
        /\ IF f = "event_type"
           THEN record[f] = params[f]
           ELSE ContainsIgnoreCase(record[f], params[f])

\* C16: every GET /events request with limit in [1,100] and skip >= 0 is
\* answered, and counts exactly the stored records that satisfy every
\* supplied filter (city, country, organizer as case-insensitive partial
\* match, event_type as exact match); a request with no filters counts every
\* stored record.
C16_FiltersCombineWithAnd ==
    (/\ reply.route = "get_events"
     /\ ReplyLimit >= 1 /\ ReplyLimit <= 100 /\ ReplySkip >= 0) =>
        /\ reply.response.code = 200
        /\ reply.response.headers["X-Total-Count"]
             = str(Cardinality({i \in 1..Len(store) : Satisfies(store[i], reply.params)}))
        /\ Supplied(reply.params) = {} =>
             reply.response.headers["X-Total-Count"] = str(Len(store))

====
